---- MODULE Spec2Model ----
(***************************************************************************)
(* Model of the portfolio site's runtime behaviour:                        *)
(*   - the service worker (dist/sw.js): install, activate, fetch and the   *)
(*     three caching strategies with their offline fallback;               *)
(*   - ProjectsManager (projects.js): init / loadProjects / renderProjects *)
(*     and the fallback path;                                              *)
(*   - ImageOptimizer (image optimisation system): lazy loading and the    *)
(*     fallback substitution on load errors.                               *)
(* Pathnames are sequences of tokens ("/", names, extensions) so that      *)
(* String.includes and String.endsWith are computed, not assumed.          *)
(***************************************************************************)
EXTENDS Integers, Sequences, FiniteSets, TLC

(***************************************************************************)
(* Bounds of the model.                                                    *)
(***************************************************************************)
\* number of distinct versions of the site's content the server publishes
MaxVer == 2
\* number of background promises (cache.put, revalidation fetch) in flight
MaxBg == 1
\* number of fetch events the worker is sent
MaxFetch == 3

(***************************************************************************)
(* Service worker: constants of dist/sw.js.                                *)
(***************************************************************************)
CACHE_NAME == "portfolio-v2"
STATIC_CACHE == "portfolio-static-v2"
DYNAMIC_CACHE == "portfolio-dynamic-v2"

CacheNames == {CACHE_NAME, STATIC_CACHE, DYNAMIC_CACHE}

\* pathnames, tokenised
P_root == <<"/">>
P_index == <<"/", "index", ".html">>
P_css == <<"/", "dist", "/", "css", "/", "styles", ".min", ".css">>
P_js == <<"/", "dist", "/", "js", "/", "scripts", ".min", ".js">>
P_headshot == <<"/", "assets", "/", "images", "/", "profile", "/", "headshot", ".svg">>
P_fallback == <<"/", "assets", "/", "images", "/", "fallback-image", ".svg">>
P_projects == <<"/", "assets", "/", "data", "/", "projects", ".json">>
P_skills == <<"/", "assets", "/", "data", "/", "skills", ".json">>
P_resume == <<"/", "resume", ".pdf">>
\* pathnames the pages request that are not precached
P_shot == <<"/", "assets", "/", "images", "/", "projects", "/", "shot", ".png">>
P_manifest == <<"/", "dist", "/", "js", "/", "manifest", ".json">>

Url(p, q) == [path |-> p, query |-> q]

STATIC_ASSETS ==
  { Url(P_root, ""), Url(P_index, ""), Url(P_css, ""), Url(P_js, ""),
    Url(P_headshot, ""), Url(P_fallback, ""), Url(P_projects, ""),
    Url(P_skills, ""), Url(P_resume, "") }

Req(p, q, d, m, o) ==
  [url |-> Url(p, q), dest |-> d, method |-> m, sameOrigin |-> o]

\* the requests the pages issue
Requests ==
  { Req(P_root, "", "document", "GET", TRUE),
    Req(P_index, "", "document", "GET", TRUE),
    Req(P_css, "", "style", "GET", TRUE),
    Req(P_css, "?v=2", "style", "GET", TRUE),
    Req(P_fallback, "", "image", "GET", TRUE),
    Req(P_shot, "", "image", "GET", TRUE),
    Req(P_projects, "", "empty", "GET", TRUE),
    Req(P_manifest, "", "empty", "GET", TRUE),
    Req(P_projects, "", "empty", "POST", TRUE),
    Req(P_shot, "", "image", "GET", FALSE) }

Urls == STATIC_ASSETS \cup { r.url : r \in Requests }

\* String.prototype.includes / endsWith on tokenised pathnames
includes(s, pat) ==
  \E i \in 1..(Len(s) - Len(pat) + 1) : SubSeq(s, i, i + Len(pat) - 1) = pat

endsWith(s, suf) ==
  /\ Len(suf) <= Len(s)
  /\ SubSeq(s, Len(s) - Len(suf) + 1, Len(s)) = suf

isStaticAsset(pathname) ==
  \/ includes(pathname, <<"/", "dist", "/", "css", "/">>)
  \/ includes(pathname, <<"/", "dist", "/", "js", "/">>)
  \/ endsWith(pathname, <<".css">>)
  \/ endsWith(pathname, <<".js">>)
  \/ endsWith(pathname, <<".pdf">>)
  \/ includes(pathname, <<"/", "assets", "/", "images", "/", "profile", "/">>)
  \/ includes(pathname, <<"/", "assets", "/", "images", "/", "icons", "/">>)

isDynamicAsset(pathname) ==
  \/ includes(pathname, <<"/", "assets", "/", "images", "/", "projects", "/">>)
  \/ endsWith(pathname, <<".png">>)
  \/ endsWith(pathname, <<".jpg">>)
  \/ endsWith(pathname, <<".jpeg">>)
  \/ endsWith(pathname, <<".svg">>)
  \/ endsWith(pathname, <<".webp">>)

isDataRequest(pathname) ==
  \/ includes(pathname, <<"/", "assets", "/", "data", "/">>)
  \/ endsWith(pathname, <<".json">>)

(***************************************************************************)
(* Responses.  A cache entry is the version of the content it holds;       *)
(* NoEntry is a miss.  Version 0 is content cached by an earlier release.  *)
(***************************************************************************)
NoEntry == -1

NoResult == [kind |-> "none", from |-> "none", status |-> 0, ver |-> NoEntry]
NullResult == [kind |-> "null", from |-> "none", status |-> 0, ver |-> NoEntry]
NotIntercepted == [kind |-> "passthrough", from |-> "none", status |-> 0, ver |-> NoEntry]
CachedResponse(v) == [kind |-> "response", from |-> "cache", status |-> 200, ver |-> v]
NetworkResponse(st, v) == [kind |-> "response", from |-> "network", status |-> st, ver |-> v]
Response503 == [kind |-> "response", from |-> "synthetic", status |-> 503, ver |-> NoEntry]

NoReq == Req(<<>>, "", "none", "none", FALSE)
Idle == [req |-> NoReq, strategy |-> "none", hit |-> NoEntry, fetched |-> FALSE, net |-> "none"]

VARIABLES
  swState,      \* lifecycle of the worker: "parsed", "installed", "activated"
  precached,    \* cache.addAll(STATIC_ASSETS) has succeeded at an install
  cacheOrder,   \* CacheStorage: names of the existing caches, in creation order
  cacheData,    \* CacheStorage: cache name -> url -> entry
  netVer,       \* version of the content the server currently serves
  pc,           \* position of the fetch handler being run
  cur,          \* the request being handled and what handleRequest did with it
  result,       \* what event.respondWith was settled with
  deletedCaches, \* names the last run of the activate listener passed to caches.delete
  nFetch,       \* number of fetch events dispatched so far
  bg,           \* promises the worker left running: cache.put and revalidation
  \* ---- ProjectsManager (projects.js) and the page it runs in
  imageOptimizer,   \* window.imageOptimizer: "absent", or "present" (TechnicalImageOptimizer)
  files,            \* what the server answers for each project data file
  pmPc,             \* position of ProjectsManager.init
  projectData,      \* loadProjects: projectData.ai / .ml / .research
  allProjects,
  filteredProjects,
  currentCategory,
  grid,             \* content of #projects-grid
  filterContainers, \* number of .project-filters containers inserted in the page
  eventsBound,      \* number of times bindEvents has run
  fetchCount,       \* number of fetches issued for each data file
  initEnd,          \* how init finished: "pending", "rendered", "fallback", "error"
  filterBtns,       \* the .project-filters containers in creation order: per
                    \* data-category, class 'active' and aria-pressed
  currentProject,
  currentImageIndex,
  modalShown,       \* #project-modal-backdrop has the class 'show'
  \* ---- ImageOptimizer (image optimisation system)
  lazyImageObserver, \* the IntersectionObserver exists
  imgs,             \* the IMG elements: attributes, classes, observation, loads in flight
  lastEvent,        \* the last image handler that ran, and on which element
  \* ---- ContactForm (contact.js) and the generic form listener of main.js
  mainJs,           \* main.js has added its submit listener to the form
  formValue,        \* value of each field element
  fieldState,       \* per field: classes of the element, error element shown
  isSubmitting,
  inFlight,         \* sendFormData calls that have not resolved
  sentData,         \* formData of the last sendFormData call
  submitButton,     \* disabled, class 'loading', .submit-loading displayed
  successMessage,   \* #form-success: class 'show', style.display
  errorMessage,     \* #form-error: class 'show', style.display
  hideTimer,        \* the setTimeout of hideMessages is pending
  lastForm,         \* the last form handler that ran and how it ended
  \* ---- high contrast mode of AccessibilityManager (accessibility.js)
  prefersHighContrast,  \* matchMedia('(prefers-contrast: high)').matches
  highContrast,         \* body has the class 'high-contrast'
  highContrastStyles,   \* number of style elements with id 'high-contrast-styles'
  liveRegion,           \* textContent of #live-region
  announceTimer,        \* a 1000 ms timer of announce is pending
  hcBefore,             \* class and styles before each of the toggles made in a row
  \* ---- scroll throttles: initializeScrollSpy (main.js) and
  \* ---- PerformanceOptimizer.optimizeScrolling (accessibility.js)
  scrollPosition,   \* window.pageYOffset / window.scrollY, in steps
  ticking,          \* the flag of each throttle
  rafPending,       \* requestAnimationFrame callbacks of each throttle not yet run
  handled,          \* the position the handler of each throttle saw in its last run
  lastScroll        \* the last scroll handler that ran, and the throttles that
                    \* were ticking when the event arrived

swVars == <<swState, precached, cacheOrder, cacheData, netVer, pc, cur, result, bg, nFetch, deletedCaches>>

pmVars == <<imageOptimizer, files, pmPc, projectData, allProjects, filteredProjects,
            currentCategory, grid, filterContainers, eventsBound, fetchCount, initEnd,
            filterBtns, currentProject, currentImageIndex, modalShown>>

imgVars == <<lazyImageObserver, imgs, lastEvent>>

formVars == <<mainJs, formValue, fieldState, isSubmitting, inFlight, sentData,
              submitButton, successMessage, errorMessage, hideTimer, lastForm>>

hcVars == <<prefersHighContrast, highContrast, highContrastStyles, liveRegion,
            announceTimer, hcBefore>>

scrollVars == <<scrollPosition, ticking, rafPending, handled, lastScroll>>

vars == <<swVars, pmVars, imgVars, formVars, hcVars, scrollVars>>


EmptyCache == [u \in Urls |-> NoEntry]

\* caches.open(name): creates the cache when it does not exist
OpenCache(order, name) ==
  IF \E i \in 1..Len(order) : order[i] = name THEN order ELSE Append(order, name)

\* CacheStorage.match: the first cache, in creation order, that has the url
RECURSIVE MatchFrom(_, _, _, _)
MatchFrom(order, data, url, i) ==
  IF i > Len(order) THEN NoEntry
  ELSE IF data[order[i]][url] # NoEntry THEN data[order[i]][url]
  ELSE MatchFrom(order, data, url, i + 1)

CachesMatch(url) == MatchFrom(cacheOrder, cacheData, url, 1)

PutTask(c, u, v) == [kind |-> "put", cache |-> c, url |-> u, ver |-> v, awaited |-> FALSE]
SwrFetchTask(u, w) == [kind |-> "swrFetch", cache |-> DYNAMIC_CACHE, url |-> u, ver |-> NoEntry, awaited |-> w]
CloneThrewTask(u, v) == [kind |-> "cloneThrew", cache |-> DYNAMIC_CACHE, url |-> u, ver |-> v, awaited |-> TRUE]

NetOutcomes == {"ok", "notok", "fail"}

SWInit ==
  /\ swState = "parsed"
  /\ precached = FALSE
  /\ cacheOrder \in {<<>>, <<CACHE_NAME>>}
  /\ cacheData = [c \in CacheNames |->
                    IF c = CACHE_NAME /\ cacheOrder # <<>>
                    THEN [u \in Urls |-> IF u = Url(P_index, "") THEN 0 ELSE NoEntry]
                    ELSE EmptyCache]
  /\ netVer = 1
  /\ pc = "idle"
  /\ cur = Idle
  /\ result = NoResult
  /\ bg = {}
  /\ nFetch = 0
  /\ deletedCaches = {}

(***************************************************************************)
(* install listener: caches.open(STATIC_CACHE), cache.addAll(STATIC_ASSETS)*)
(* then skipWaiting; a failure of addAll is caught and logged, and the     *)
(* promise given to waitUntil is fulfilled either way.                     *)
(***************************************************************************)
Install ==
  /\ swState = "parsed"
  /\ swState' = "installed"
  /\ cacheOrder' = OpenCache(cacheOrder, STATIC_CACHE)
  /\ \E ok \in BOOLEAN :
       IF ok
       THEN /\ cacheData' = [cacheData EXCEPT ![STATIC_CACHE] =
                               [u \in Urls |-> IF u \in STATIC_ASSETS THEN netVer ELSE @[u]]]
            /\ precached' = TRUE
       ELSE UNCHANGED <<cacheData, precached>>
  /\ UNCHANGED <<netVer, pc, cur, result, bg, nFetch, deletedCaches, pmVars, imgVars, formVars, hcVars, scrollVars>>

\* variant: the test reads cacheName !== STATIC_CACHE || cacheName !== DYNAMIC_CACHE
Activate_deleteAll ==
  /\ swState = "installed"
  /\ swState' = "activated"
  /\ cacheOrder' = <<>>
  /\ cacheData' = [c \in CacheNames |-> EmptyCache]
  /\ deletedCaches' = {cacheOrder[i] : i \in 1..Len(cacheOrder)}
  /\ UNCHANGED <<precached, netVer, pc, cur, result, bg, nFetch, pmVars, imgVars, formVars, hcVars, scrollVars>>

\* variant: the test reads cacheName !== DYNAMIC_CACHE only
Activate_deleteStatic ==
  /\ swState = "installed"
  /\ swState' = "activated"
  /\ cacheOrder' = SelectSeq(cacheOrder, LAMBDA c : c = DYNAMIC_CACHE)
  /\ cacheData' = [c \in CacheNames |-> IF c # DYNAMIC_CACHE THEN EmptyCache ELSE cacheData[c]]
  /\ deletedCaches' = {cacheOrder[i] : i \in {j \in 1..Len(cacheOrder) : cacheOrder[j] # DYNAMIC_CACHE}}
  /\ UNCHANGED <<precached, netVer, pc, cur, result, bg, nFetch, pmVars, imgVars, formVars, hcVars, scrollVars>>

(***************************************************************************)
(* activate listener: delete every cache that is neither STATIC_CACHE nor  *)
(* DYNAMIC_CACHE, then clients.claim().                                    *)
(***************************************************************************)
Activate ==
  /\ swState = "installed"
  /\ swState' = "activated"
  /\ cacheOrder' = SelectSeq(cacheOrder, LAMBDA c : ~(c # STATIC_CACHE /\ c # DYNAMIC_CACHE))
  /\ cacheData' = [c \in CacheNames |->
                     IF c # STATIC_CACHE /\ c # DYNAMIC_CACHE THEN EmptyCache ELSE cacheData[c]]
  /\ deletedCaches' = {cacheOrder[i] : i \in {j \in 1..Len(cacheOrder) :
                          cacheOrder[j] # STATIC_CACHE /\ cacheOrder[j] # DYNAMIC_CACHE}}
  /\ UNCHANGED <<precached, netVer, pc, cur, result, bg, nFetch, pmVars, imgVars, formVars, hcVars, scrollVars>>

(***************************************************************************)
(* fetch listener and handleRequest.  A request that is not GET or not     *)
(* same-origin returns before respondWith.  Otherwise handleRequest picks  *)
(* a strategy from the pathname; each strategy starts with its first       *)
(* await (caches.match, or fetch for networkFirst).                        *)
(***************************************************************************)
Started(r, s, h, f) == [req |-> r, strategy |-> s, hit |-> h, fetched |-> f, net |-> "none"]

\* cacheFirst up to its fetch: a hit is returned at once
CacheFirstStart(r) ==
  LET hit == CachesMatch(r.url) IN
  /\ cur' = Started(r, "cacheFirst", hit, hit = NoEntry)
  /\ IF hit # NoEntry
     THEN result' = CachedResponse(hit) /\ pc' = "idle"
     ELSE result' = NoResult /\ pc' = "cacheFirst_fetch"
  /\ UNCHANGED bg

\* staleWhileRevalidate: caches.match, then fetch(request) is started in
\* every case; the handler waits for it only on a miss
StaleWhileRevalidateStart(r) ==
  LET hit == CachesMatch(r.url) IN
  /\ Cardinality(bg) < MaxBg
  /\ cur' = Started(r, "staleWhileRevalidate", hit, TRUE)
  /\ bg' = bg \cup {SwrFetchTask(r.url, hit = NoEntry)}
  /\ IF hit # NoEntry
     THEN result' = CachedResponse(hit) /\ pc' = "idle"
     ELSE result' = NoResult /\ pc' = "swr_await"

\* networkFirst up to its fetch
NetworkFirstStart(r) ==
  /\ cur' = Started(r, "networkFirst", CachesMatch(r.url), TRUE)
  /\ result' = NoResult
  /\ pc' = "networkFirst_fetch"
  /\ UNCHANGED bg

\* variant: the data test is made before the static and dynamic tests
handleRequest_dataFirst(r) ==
  IF isDataRequest(r.url.path) THEN NetworkFirstStart(r)
  ELSE IF isStaticAsset(r.url.path) THEN CacheFirstStart(r)
  ELSE IF isDynamicAsset(r.url.path) THEN StaleWhileRevalidateStart(r)
  ELSE NetworkFirstStart(r)

handleRequest(r) ==
  IF isStaticAsset(r.url.path) THEN CacheFirstStart(r)
  ELSE IF isDynamicAsset(r.url.path) THEN StaleWhileRevalidateStart(r)
  ELSE IF isDataRequest(r.url.path) THEN NetworkFirstStart(r)
  ELSE NetworkFirstStart(r)

\* variant: the listener without its test of request.method
FetchEvent_anyMethod(r) ==
  /\ swState = "activated"
  /\ pc = "idle"
  /\ IF ~r.sameOrigin
     THEN /\ cur' = Started(r, "none", NoEntry, FALSE)
          /\ result' = NotIntercepted
          /\ UNCHANGED <<pc, bg>>
     ELSE handleRequest(r)
  /\ nFetch < MaxFetch
  /\ nFetch' = nFetch + 1
  /\ UNCHANGED <<swState, precached, cacheOrder, cacheData, netVer, deletedCaches, pmVars, imgVars, formVars, hcVars, scrollVars>>

FetchEvent(r) ==
  /\ swState = "activated"
  /\ pc = "idle"
  /\ IF r.method # "GET" \/ ~r.sameOrigin
     THEN /\ cur' = Started(r, "none", NoEntry, FALSE)
          /\ result' = NotIntercepted
          /\ UNCHANGED <<pc, bg>>
     ELSE handleRequest(r)
  /\ nFetch < MaxFetch
  /\ nFetch' = nFetch + 1
  /\ UNCHANGED <<swState, precached, cacheOrder, cacheData, netVer, deletedCaches, pmVars, imgVars, formVars, hcVars, scrollVars>>

\* cacheFirst after fetch(request) settles
CacheFirstFetched ==
  /\ pc = "cacheFirst_fetch"
  /\ \E o \in NetOutcomes :
       /\ cur' = [cur EXCEPT !.net = o]
       /\ CASE o = "ok" ->
                 /\ Cardinality(bg) < MaxBg
                 /\ cacheOrder' = OpenCache(cacheOrder, STATIC_CACHE)
                 /\ bg' = bg \cup {PutTask(STATIC_CACHE, cur.req.url, netVer)}
                 /\ result' = NetworkResponse(200, netVer)
                 /\ pc' = "idle"
            [] o = "notok" ->
                 /\ result' = NetworkResponse(404, netVer)
                 /\ pc' = "idle"
                 /\ UNCHANGED <<cacheOrder, bg>>
            [] o = "fail" ->
                 /\ pc' = "handleOffline"
                 /\ UNCHANGED <<cacheOrder, bg, result>>
  /\ UNCHANGED <<swState, precached, cacheData, netVer, nFetch, deletedCaches, pmVars, imgVars, formVars, hcVars, scrollVars>>

\* variant: a response that is not ok is treated like a network error
NetworkFirstFetched_notOkFallsBack ==
  /\ pc = "networkFirst_fetch"
  /\ \E o \in NetOutcomes :
       /\ cur' = [cur EXCEPT !.net = o]
       /\ CASE o = "ok" ->
                 /\ Cardinality(bg) < MaxBg
                 /\ cacheOrder' = OpenCache(cacheOrder, DYNAMIC_CACHE)
                 /\ bg' = bg \cup {PutTask(DYNAMIC_CACHE, cur.req.url, netVer)}
                 /\ result' = NetworkResponse(200, netVer)
                 /\ pc' = "idle"
            [] o \in {"notok", "fail"} ->
                 /\ IF CachesMatch(cur.req.url) # NoEntry
                    THEN result' = CachedResponse(CachesMatch(cur.req.url)) /\ pc' = "idle"
                    ELSE result' = result /\ pc' = "handleOffline"
                 /\ UNCHANGED <<cacheOrder, bg>>
  /\ UNCHANGED <<swState, precached, cacheData, netVer, nFetch, deletedCaches, pmVars, imgVars, formVars, hcVars, scrollVars>>

\* networkFirst after fetch(request) settles; its catch looks in the caches
NetworkFirstFetched ==
  /\ pc = "networkFirst_fetch"
  /\ \E o \in NetOutcomes :
       /\ cur' = [cur EXCEPT !.net = o]
       /\ CASE o = "ok" ->
                 /\ Cardinality(bg) < MaxBg
                 /\ cacheOrder' = OpenCache(cacheOrder, DYNAMIC_CACHE)
                 /\ bg' = bg \cup {PutTask(DYNAMIC_CACHE, cur.req.url, netVer)}
                 /\ result' = NetworkResponse(200, netVer)
                 /\ pc' = "idle"
            [] o = "notok" ->
                 /\ result' = NetworkResponse(404, netVer)
                 /\ pc' = "idle"
                 /\ UNCHANGED <<cacheOrder, bg>>
            [] o = "fail" ->
                 /\ IF CachesMatch(cur.req.url) # NoEntry
                    THEN result' = CachedResponse(CachesMatch(cur.req.url)) /\ pc' = "idle"
                    ELSE result' = result /\ pc' = "handleOffline"
                 /\ UNCHANGED <<cacheOrder, bg>>
  /\ UNCHANGED <<swState, precached, cacheData, netVer, nFetch, deletedCaches, pmVars, imgVars, formVars, hcVars, scrollVars>>

\* the fetch started by staleWhileRevalidate settles.  Its then-callback
\* opens DYNAMIC_CACHE and puts response.clone() once the cache is open; on
\* a miss the same response has by then been handed to respondWith, so
\* clone() either still succeeds or throws because the body is in use.
\* Its catch-callback turns a network error into null.
SwrFetched(t) ==
  /\ t \in bg
  /\ t.kind = "swrFetch"
  /\ t.awaited => pc = "swr_await"
  /\ \E o \in NetOutcomes :
       /\ CASE o = "ok" ->
                 /\ cacheOrder' = OpenCache(cacheOrder, DYNAMIC_CACHE)
                 /\ \E cloned \in (IF t.awaited THEN BOOLEAN ELSE {TRUE}) :
                      bg' = (bg \ {t}) \cup
                              {IF cloned THEN PutTask(DYNAMIC_CACHE, t.url, netVer)
                                         ELSE CloneThrewTask(t.url, netVer)}
            [] o = "notok" ->
                 /\ bg' = bg \ {t}
                 /\ UNCHANGED cacheOrder
            [] o = "fail" ->
                 /\ bg' = bg \ {t}
                 /\ UNCHANGED cacheOrder
       /\ IF t.awaited
          THEN /\ cur' = [cur EXCEPT !.net = o]
               /\ pc' = "idle"
               /\ result' = CASE o = "ok" -> NetworkResponse(200, netVer)
                              [] o = "notok" -> NetworkResponse(404, netVer)
                              [] o = "fail" -> NullResult
          ELSE UNCHANGED <<cur, pc, result>>
  /\ UNCHANGED <<swState, precached, cacheData, netVer, nFetch, deletedCaches, pmVars, imgVars, formVars, hcVars, scrollVars>>

\* variant: the cached '/index.html' is the fallback whatever the destination
HandleOffline_indexForAll ==
  /\ pc = "handleOffline"
  /\ pc' = "idle"
  /\ result' =
       IF CachesMatch(cur.req.url) # NoEntry
       THEN CachedResponse(CachesMatch(cur.req.url))
       ELSE IF CachesMatch(Url(P_index, "")) # NoEntry
       THEN CachedResponse(CachesMatch(Url(P_index, "")))
       ELSE Response503
  /\ UNCHANGED <<swState, precached, cacheOrder, cacheData, netVer, cur, bg, nFetch, deletedCaches, pmVars, imgVars, formVars, hcVars, scrollVars>>

\* handleOffline, reached from the catch of handleRequest
HandleOffline ==
  /\ pc = "handleOffline"
  /\ pc' = "idle"
  /\ result' =
       IF CachesMatch(cur.req.url) # NoEntry
       THEN CachedResponse(CachesMatch(cur.req.url))
       ELSE IF cur.req.dest = "document"
       THEN (IF CachesMatch(Url(P_index, "")) # NoEntry
             THEN CachedResponse(CachesMatch(Url(P_index, "")))
             ELSE Response503)
       ELSE IF cur.req.dest = "image"
       THEN (IF CachesMatch(Url(P_fallback, "")) # NoEntry
             THEN CachedResponse(CachesMatch(Url(P_fallback, "")))
             ELSE Response503)
       ELSE Response503
  /\ UNCHANGED <<swState, precached, cacheOrder, cacheData, netVer, cur, bg, nFetch, deletedCaches, pmVars, imgVars, formVars, hcVars, scrollVars>>

\* a cache.put that was not awaited completes
PutDone(t) ==
  /\ t \in bg
  /\ t.kind = "put"
  /\ cacheData' = [cacheData EXCEPT ![t.cache][t.url] = t.ver]
  /\ bg' = bg \ {t}
  /\ UNCHANGED <<swState, precached, cacheOrder, netVer, pc, cur, result, nFetch, deletedCaches, pmVars, imgVars, formVars, hcVars, scrollVars>>

\* the rejection of the promise whose clone() threw is reported and dropped
CloneThrewReported(t) ==
  /\ t \in bg
  /\ t.kind = "cloneThrew"
  /\ bg' = bg \ {t}
  /\ UNCHANGED <<swState, precached, cacheOrder, cacheData, netVer, pc, cur, result, nFetch, deletedCaches, pmVars, imgVars, formVars, hcVars, scrollVars>>

\* the site is redeployed: the server serves newer content
ServerUpdate ==
  /\ netVer < MaxVer
  /\ netVer' = netVer + 1
  /\ UNCHANGED <<swState, precached, cacheOrder, cacheData, pc, cur, result, bg, nFetch, deletedCaches, pmVars, imgVars, formVars, hcVars, scrollVars>>

\* a page load registers /sw.js again and the worker is installed anew;
\* Cache Storage persists, the promises of the stopped worker do not
Register ==
  /\ swState = "activated"
  /\ pc = "idle"
  /\ swState' = "parsed"
  /\ bg' = {}
  /\ cur' = Idle
  /\ result' = NoResult
  /\ UNCHANGED <<precached, cacheOrder, cacheData, netVer, pc, nFetch, deletedCaches, pmVars, imgVars, formVars, hcVars, scrollVars>>

SWNext ==
  \/ Install
  \/ Activate
  \/ \E r \in Requests : FetchEvent(r)
  \/ CacheFirstFetched
  \/ NetworkFirstFetched
  \/ \E t \in bg : SwrFetched(t)
  \/ HandleOffline
  \/ \E t \in bg : PutDone(t)
  \/ \E t \in bg : CloneThrewReported(t)
  \/ ServerUpdate
  \/ Register

(***************************************************************************)
(* ProjectsManager.  The constructor calls init(), which shows the loading *)
(* state and runs loadProjects up to its first fetch; the three data files *)
(* are fetched one after the other, and everything after the last fetch    *)
(* (combine, createCategoryFilters, renderProjects, bindEvents, and the    *)
(* catch of init with the fallback projects) runs without another await.   *)
(***************************************************************************)
\* number of projects a data file holds at most
MaxProjects == 2

DataFiles == {"ai", "ml", "research"}

FileCategory(f) ==
  CASE f = "ai" -> "ai-product"
    [] f = "ml" -> "ml-engineering"
    [] f = "research" -> "research"

Project(i, c) == [id |-> i, category |-> c]

\* the entries of a data file, with the category loadProjects gives them
FileProjects(f, n) == [k \in 1..n |-> Project(<<f, k>>, FileCategory(f))]

\* file states: a network error, an HTTP error status, a body that is not
\* JSON, or valid JSON with n projects
FileStates ==
  { [status |-> st, n |-> 0] : st \in {"neterr", "http", "badjson"} }
    \cup { [status |-> "ok", n |-> k] : k \in 0..MaxProjects }

Null == [loaded |-> FALSE, projects |-> <<>>]

\* one fetch of loadProjects with its response.ok test and response.json()
LoadFile(f) ==
  IF files[f].status = "ok"
  THEN [loaded |-> TRUE, projects |-> FileProjects(f, files[f].n)]
  ELSE Null

\* (projectData.x?.projects || [])
Combine(pd) == pd["ai"].projects \o pd["ml"].projects \o pd["research"].projects

FallbackProjects ==
  << Project(<<"fallback", 1>>, "ai-product"), Project(<<"fallback", 2>>, "research") >>

\* this.currentProject = null
NoProject == Project(<<"none", 0>>, "none")

\* project.images.length: the k-th project of a data file has k images, a
\* fallback project has one
NImages(project) ==
  IF project.id[1] = "fallback" THEN 1 ELSE project.id[2]

Categories == {"all", "ai-product", "ml-engineering", "research"}

\* the buttons of one container as createCategoryFilters writes them
NewFilterContainer ==
  [c \in Categories |-> [active |-> c = "all", pressed |-> c = "all"]]

\* updateFilterButtons: this.categoryFilters are the buttons of the container
\* created last
updateFilterButtons(btns, category) ==
  IF Len(btns) = 0 THEN btns
  ELSE [btns EXCEPT ![Len(btns)] =
          [c \in Categories |-> [active |-> c = category, pressed |-> c = category]]]

LoadingGrid == [kind |-> "loading", cards |-> <<>>]
ErrorGrid == [kind |-> "error", cards |-> <<>>]
EmptyGrid == [kind |-> "empty-message", cards |-> <<>>]
CardsGrid(projects) == [kind |-> "cards", cards |-> [i \in 1..Len(projects) |-> projects[i].id]]

\* renderProjects: the grid it writes, and whether it throws afterwards:
\* window.imageOptimizer.addLazyImages is not a function of ImageOptimizer
renderProjects(filtered) ==
  IF Len(filtered) = 0
  THEN [grid |-> EmptyGrid, threw |-> FALSE]
  ELSE [grid |-> CardsGrid(filtered), threw |-> (imageOptimizer = "present")]

PMInit ==
  /\ imageOptimizer \in {"absent", "present"}
  /\ files \in [DataFiles -> FileStates]
  /\ pmPc = "fetch_ai"
  /\ projectData = [f \in DataFiles |-> Null]
  /\ allProjects = <<>>
  /\ filteredProjects = <<>>
  /\ currentCategory = "all"
  /\ grid = LoadingGrid
  /\ filterContainers = 0
  /\ eventsBound = 0
  /\ fetchCount = [f \in DataFiles |-> 0]
  /\ initEnd = "pending"
  /\ filterBtns = <<>>
  /\ currentProject = NoProject
  /\ currentImageIndex = 0
  /\ modalShown = FALSE

\* the page without a projects grid being initialised
PMIdle ==
  /\ imageOptimizer = "absent"
  /\ files = [f \in DataFiles |-> [status |-> "neterr", n |-> 0]]
  /\ pmPc = "none"
  /\ projectData = [f \in DataFiles |-> Null]
  /\ allProjects = <<>>
  /\ filteredProjects = <<>>
  /\ currentCategory = "all"
  /\ grid = LoadingGrid
  /\ filterContainers = 0
  /\ eventsBound = 0
  /\ fetchCount = [f \in DataFiles |-> 0]
  /\ initEnd = "pending"
  /\ filterBtns = <<>>
  /\ currentProject = NoProject
  /\ currentImageIndex = 0
  /\ modalShown = FALSE

FetchAi ==
  /\ pmPc = "fetch_ai"
  /\ projectData' = [projectData EXCEPT !["ai"] = LoadFile("ai")]
  /\ fetchCount' = [fetchCount EXCEPT !["ai"] = @ + 1]
  /\ pmPc' = "fetch_ml"
  /\ UNCHANGED <<imageOptimizer, files, allProjects, filteredProjects, currentCategory,
                 grid, filterContainers, eventsBound, initEnd, filterBtns,
                 currentProject, currentImageIndex, modalShown, swVars, imgVars, formVars, hcVars, scrollVars>>

FetchMl ==
  /\ pmPc = "fetch_ml"
  /\ projectData' = [projectData EXCEPT !["ml"] = LoadFile("ml")]
  /\ fetchCount' = [fetchCount EXCEPT !["ml"] = @ + 1]
  /\ pmPc' = "fetch_research"
  /\ UNCHANGED <<imageOptimizer, files, allProjects, filteredProjects, currentCategory,
                 grid, filterContainers, eventsBound, initEnd, filterBtns,
                 currentProject, currentImageIndex, modalShown, swVars, imgVars, formVars, hcVars, scrollVars>>

\* the last fetch and the rest of loadProjects and init
FetchResearch ==
  /\ pmPc = "fetch_research"
  /\ fetchCount' = [fetchCount EXCEPT !["research"] = @ + 1]
  /\ pmPc' = "done"
  /\ LET pd == [projectData EXCEPT !["research"] = LoadFile("research")]
         all == Combine(pd)
         first == renderProjects(all)
         second == renderProjects(FallbackProjects)
     IN /\ projectData' = pd
        /\ IF Len(all) > 0 /\ ~first.threw
           THEN \* try block of init ran to its end
                /\ allProjects' = all
                /\ filteredProjects' = all
                /\ filterContainers' = 1
                /\ filterBtns' = <<NewFilterContainer>>
                /\ grid' = first.grid
                /\ eventsBound' = 1
                /\ initEnd' = "rendered"
           ELSE \* loadProjects or renderProjects threw: catch block of init
                /\ allProjects' = FallbackProjects
                /\ filteredProjects' = FallbackProjects
                /\ filterContainers' = (IF Len(all) > 0 THEN 1 ELSE 0) + 1
                /\ filterBtns' = IF Len(all) > 0
                                 THEN <<NewFilterContainer, NewFilterContainer>>
                                 ELSE <<NewFilterContainer>>
                /\ IF ~second.threw
                   THEN /\ grid' = second.grid
                        /\ eventsBound' = 1
                        /\ initEnd' = "fallback"
                   ELSE /\ grid' = ErrorGrid
                        /\ eventsBound' = 0
                        /\ initEnd' = "error"
  /\ UNCHANGED <<imageOptimizer, files, currentCategory, currentProject,
                 currentImageIndex, modalShown, swVars, imgVars, formVars, hcVars, scrollVars>>

\* filterProjects keeping every project whatever the category: not the program
filterProjects_keepAll(category) ==
  LET filtered == allProjects
      r == renderProjects(filtered)
  IN [currentCategory |-> category,
      filteredProjects |-> filtered,
      grid |-> r.grid,
      filterBtns |-> IF r.threw THEN filterBtns
                     ELSE updateFilterButtons(filterBtns, category)]

\* filterProjects(category): what it leaves in the fields, the grid and the
\* buttons; when renderProjects throws, updateFilterButtons is not reached
filterProjects(category) ==
  LET filtered == IF category = "all" THEN allProjects
                  ELSE SelectSeq(allProjects, LAMBDA p : p.category = category)
      r == renderProjects(filtered)
  IN [currentCategory |-> category,
      filteredProjects |-> filtered,
      grid |-> r.grid,
      filterBtns |-> IF r.threw THEN filterBtns
                     ELSE updateFilterButtons(filterBtns, category)]

\* the click listener of AccessibilityManager on document: every .filter-btn
\* gets aria-pressed 'false', the clicked one 'true' (k = 0: the clicked
\* button is not a project filter)
announceFilterClick(btns, k, category) ==
  [i \in 1..Len(btns) |->
     [c \in Categories |-> [btns[i][c] EXCEPT !.pressed = (i = k /\ c = category)]]]

\* accessibility.js is on the page: it defines window.imageOptimizer and
\* window.accessibilityManager
accessibilityManager == imageOptimizer = "present"

\* a filterProjects that requests the data files again: not the program
FilterProjectsCall_reload(category) ==
  /\ pmPc = "done"
  /\ LET r == filterProjects(category)
     IN /\ currentCategory' = r.currentCategory
        /\ filteredProjects' = r.filteredProjects
        /\ grid' = r.grid
        /\ filterBtns' = r.filterBtns
  /\ fetchCount' = [f \in DataFiles |-> fetchCount[f] + 1]
  /\ UNCHANGED <<imageOptimizer, files, pmPc, projectData, allProjects, filterContainers,
                 eventsBound, initEnd, currentProject, currentImageIndex,
                 modalShown, swVars, imgVars, formVars, hcVars, scrollVars>>

\* a call of filterProjects(category), as the test runner makes it
FilterProjectsCall(category) ==
  /\ pmPc = "done"
  /\ LET r == filterProjects(category)
     IN /\ currentCategory' = r.currentCategory
        /\ filteredProjects' = r.filteredProjects
        /\ grid' = r.grid
        /\ filterBtns' = r.filterBtns
  /\ UNCHANGED <<imageOptimizer, files, pmPc, projectData, allProjects, filterContainers,
                 eventsBound, fetchCount, initEnd, currentProject, currentImageIndex,
                 modalShown, swVars, imgVars, formVars, hcVars, scrollVars>>

\* a click on a button that bindEvents gave its listener (one of
\* this.categoryFilters): filterProjects, then the document listener
FilterButtonClick(category) ==
  /\ pmPc = "done"
  /\ eventsBound = 1
  /\ LET r == filterProjects(category)
     IN /\ currentCategory' = r.currentCategory
        /\ filteredProjects' = r.filteredProjects
        /\ grid' = r.grid
        /\ filterBtns' = IF accessibilityManager
                         THEN announceFilterClick(r.filterBtns, Len(filterBtns), category)
                         ELSE r.filterBtns
  /\ UNCHANGED <<imageOptimizer, files, pmPc, projectData, allProjects, filterContainers,
                 eventsBound, fetchCount, initEnd, currentProject, currentImageIndex,
                 modalShown, swVars, imgVars, formVars, hcVars, scrollVars>>

ArtifactCategories == {"all", "code-repository", "diagram", "demo", "prd"}

\* a click on a filter button of the technical artifacts section:
\* filterArtifacts toggles 'active' on every .filter-btn of the document by
\* its data-filter attribute, which the project filter buttons do not have;
\* then the document listener
ArtifactFilterClick(category) ==
  /\ pmPc = "done"
  /\ LET btns == [i \in 1..Len(filterBtns) |->
                   [c \in Categories |-> [filterBtns[i][c] EXCEPT !.active = FALSE]]]
     IN filterBtns' = IF accessibilityManager
                      THEN announceFilterClick(btns, 0, category)
                      ELSE btns
  /\ UNCHANGED <<imageOptimizer, files, pmPc, projectData, allProjects, filteredProjects,
                 currentCategory, grid, filterContainers, eventsBound, fetchCount, initEnd,
                 currentProject, currentImageIndex, modalShown, swVars, imgVars, formVars, hcVars, scrollVars>>

MissingId == <<"missing", 0>>

ProjectIds == {allProjects[i].id : i \in 1..Len(allProjects)} \cup {MissingId}

\* openModal(projectId): renderModalContent ends in
\* window.imageOptimizer.addLazyImages, which throws before showModal when
\* window.imageOptimizer is the ImageOptimizer of accessibility.js
OpenModal(projectId) ==
  /\ pmPc = "done"
  /\ LET found == SelectSeq(allProjects, LAMBDA p : p.id = projectId)
     IN IF Len(found) = 0
        THEN UNCHANGED <<currentProject, currentImageIndex, modalShown>>
        ELSE /\ currentProject' = found[1]
             /\ currentImageIndex' = 0
             /\ modalShown' = IF imageOptimizer = "present" THEN modalShown ELSE TRUE
  /\ UNCHANGED <<imageOptimizer, files, pmPc, projectData, allProjects, filteredProjects,
                 currentCategory, grid, filterContainers, eventsBound, fetchCount, initEnd,
                 filterBtns, swVars, imgVars, formVars, hcVars, scrollVars>>

CloseModal ==
  /\ pmPc = "done"
  /\ modalShown' = FALSE
  /\ currentProject' = NoProject
  /\ currentImageIndex' = 0
  /\ UNCHANGED <<imageOptimizer, files, pmPc, projectData, allProjects, filteredProjects,
                 currentCategory, grid, filterContainers, eventsBound, fetchCount, initEnd,
                 filterBtns, swVars, imgVars, formVars, hcVars, scrollVars>>

\* the gallery: the prev / next buttons of the modal and the arrow keys
\* while the modal is open
PreviousImage ==
  /\ modalShown
  /\ currentProject # NoProject
  /\ currentImageIndex' =
       IF NImages(currentProject) <= 1 THEN currentImageIndex
       ELSE IF currentImageIndex = 0 THEN NImages(currentProject) - 1
       ELSE currentImageIndex - 1
  /\ UNCHANGED <<imageOptimizer, files, pmPc, projectData, allProjects, filteredProjects,
                 currentCategory, grid, filterContainers, eventsBound, fetchCount, initEnd,
                 filterBtns, currentProject, modalShown, swVars, imgVars, formVars, hcVars, scrollVars>>

NextImage ==
  /\ modalShown
  /\ currentProject # NoProject
  /\ currentImageIndex' =
       IF NImages(currentProject) <= 1 THEN currentImageIndex
       ELSE IF currentImageIndex = NImages(currentProject) - 1 THEN 0
       ELSE currentImageIndex + 1
  /\ UNCHANGED <<imageOptimizer, files, pmPc, projectData, allProjects, filteredProjects,
                 currentCategory, grid, filterContainers, eventsBound, fetchCount, initEnd,
                 filterBtns, currentProject, modalShown, swVars, imgVars, formVars, hcVars, scrollVars>>

PMNext ==
  \/ FetchAi
  \/ FetchMl
  \/ FetchResearch
  \/ \E category \in Categories : FilterProjectsCall(category)
  \/ \E category \in Categories : FilterButtonClick(category)
  \/ \E category \in ArtifactCategories : ArtifactFilterClick(category)
  \/ \E projectId \in ProjectIds : OpenModal(projectId)
  \/ CloseModal
  \/ PreviousImage
  \/ NextImage

(***************************************************************************)
(* ImageOptimizer.  An IMG element carries data-src while it is lazy; the  *)
(* IntersectionObserver callback calls loadImage and unobserves; loadImage *)
(* preloads through a detached Image whose onload / onerror handlers       *)
(* update the element; error events on IMG elements reach handleImageError *)
(* through the capturing listener on document.                             *)
(***************************************************************************)
\* number of preloads of one element that can be in flight
MaxLoads == 2

Images == {"lazy", "eager"}

\* classes found on the element or on an ancestor (img.closest) that
\* handleImageError looks at
CategoryMarks == {"technical-diagram", "research-plot", "project-screenshot", "artifact-image"}

fallbackImage == "assets/images/fallback-image.svg"

categoryFallbacks(k) ==
  CASE k = "technical-diagram" -> "assets/images/fallbacks/technical-diagram-fallback.svg"
    [] k = "research-plot" -> "assets/images/fallbacks/research-plot-fallback.svg"
    [] k = "project-screenshot" -> "assets/images/fallbacks/project-screenshot-fallback.svg"
    [] k = "default" -> "assets/images/fallbacks/default-fallback.svg"

FallbackSVGs ==
  {fallbackImage} \cup
    {categoryFallbacks(k) : k \in {"technical-diagram", "research-plot", "project-screenshot", "default"}}

\* variant: the class 'loading' is not removed
handleImageError_keepLoading(img) ==
  LET fallbackSrc ==
        IF "technical-diagram" \in img.marks THEN categoryFallbacks("technical-diagram")
        ELSE IF "research-plot" \in img.marks THEN categoryFallbacks("research-plot")
        ELSE IF "project-screenshot" \in img.marks THEN categoryFallbacks("project-screenshot")
        ELSE IF "artifact-image" \in img.marks THEN categoryFallbacks("technical-diagram")
        ELSE fallbackImage
  IN [img EXCEPT !.src = fallbackSrc, !.classes = @ \cup {"fallback"}]

handleImageError(img) ==
  LET fallbackSrc ==
        IF "technical-diagram" \in img.marks THEN categoryFallbacks("technical-diagram")
        ELSE IF "research-plot" \in img.marks THEN categoryFallbacks("research-plot")
        ELSE IF "project-screenshot" \in img.marks THEN categoryFallbacks("project-screenshot")
        ELSE IF "artifact-image" \in img.marks THEN categoryFallbacks("technical-diagram")
        ELSE fallbackImage
  IN [img EXCEPT !.src = fallbackSrc,
                 !.classes = (@ \cup {"fallback"}) \ {"loading"}]

\* loadImage(img): nothing without data-src / data-lazy
loadImage(img) ==
  IF img.dataSrc
  THEN [img EXCEPT !.classes = @ \cup {"loading"}, !.loads = @ + 1]
  ELSE img

LazyImg(m) ==
  [dataSrc |-> TRUE, src |-> "none", marks |-> m, classes |-> {}, observed |-> TRUE, loads |-> 0]
EagerImg ==
  [dataSrc |-> FALSE, src |-> "original", marks |-> {}, classes |-> {}, observed |-> FALSE, loads |-> 0]

\* state after the constructor: setupLazyLoading observes the lazy images,
\* or loads them all at once when IntersectionObserver is missing
ImgInit ==
  /\ lazyImageObserver \in BOOLEAN
  /\ \E m \in SUBSET CategoryMarks :
       imgs = [i \in Images |->
                 IF i = "lazy"
                 THEN (IF lazyImageObserver THEN LazyImg(m)
                       ELSE [loadImage(LazyImg(m)) EXCEPT !.observed = FALSE])
                 ELSE EagerImg]
  /\ lastEvent = [kind |-> "init", img |-> "none"]

\* a page without images
ImgIdle ==
  /\ lazyImageObserver = FALSE
  /\ imgs = [i \in Images |-> EagerImg]
  /\ lastEvent = [kind |-> "init", img |-> "none"]

\* IntersectionObserver callback for an intersecting entry
Intersect(i) ==
  /\ lazyImageObserver
  /\ imgs[i].observed
  /\ imgs[i].dataSrc => imgs[i].loads < MaxLoads
  /\ imgs' = [imgs EXCEPT ![i] = [loadImage(@) EXCEPT !.observed = FALSE]]
  /\ lastEvent' = [kind |-> "intersect", img |-> i]
  /\ UNCHANGED <<lazyImageObserver, swVars, pmVars, formVars, hcVars, scrollVars>>

\* imageLoader.onload
LoaderOnload(i) ==
  /\ imgs[i].loads > 0
  /\ imgs' = [imgs EXCEPT ![i] =
                [@ EXCEPT !.src = "original",
                          !.classes = (@ \cup {"loaded"}) \ {"loading"},
                          !.dataSrc = FALSE,
                          !.loads = @ - 1]]
  /\ lastEvent' = [kind |-> "onload", img |-> i]
  /\ UNCHANGED <<lazyImageObserver, swVars, pmVars, formVars, hcVars, scrollVars>>

\* imageLoader.onerror
LoaderOnerror(i) ==
  /\ imgs[i].loads > 0
  /\ imgs' = [imgs EXCEPT ![i] = [handleImageError(@) EXCEPT !.loads = @ - 1]]
  /\ lastEvent' = [kind |-> "onerror", img |-> i]
  /\ UNCHANGED <<lazyImageObserver, swVars, pmVars, formVars, hcVars, scrollVars>>

\* an error event on the IMG element: the source it shows cannot be loaded
ErrorEvent(i) ==
  /\ imgs[i].src # "none"
  /\ imgs' = [imgs EXCEPT ![i] = handleImageError(@)]
  /\ lastEvent' = [kind |-> "error", img |-> i]
  /\ UNCHANGED <<lazyImageObserver, swVars, pmVars, formVars, hcVars, scrollVars>>

\* updateObserver -> observeLazyImages: img[data-src], img[data-lazy]
updateObserver ==
  /\ imgs' = IF lazyImageObserver
             THEN [i \in Images |-> IF imgs[i].dataSrc THEN [imgs[i] EXCEPT !.observed = TRUE] ELSE imgs[i]]
             ELSE imgs
  /\ lastEvent' = [kind |-> "updateObserver", img |-> "none"]
  /\ UNCHANGED <<lazyImageObserver, swVars, pmVars, formVars, hcVars, scrollVars>>

ImgNext ==
  \/ \E i \in Images : Intersect(i)
  \/ \E i \in Images : LoaderOnload(i)
  \/ \E i \in Images : LoaderOnerror(i)
  \/ \E i \in Images : ErrorEvent(i)
  \/ updateObserver

\* the worker before it is registered
SWIdle ==
  /\ swState = "parsed"
  /\ precached = FALSE
  /\ cacheOrder = <<>>
  /\ cacheData = [c \in CacheNames |-> EmptyCache]
  /\ netVer = 1
  /\ pc = "idle"
  /\ cur = Idle
  /\ result = NoResult
  /\ bg = {}
  /\ nFetch = 0
  /\ deletedCaches = {}

(***************************************************************************)
(* ContactForm (assets/js/contact.js) with the form listener of main.js.   *)
(* Field values are sequences of characters.                               *)
(***************************************************************************)
Fields == {"name", "email", "message"}

Whitespace == {" "}

\* the values a user types into each field
NameValues == {<<>>, <<" ">>, <<" ", "a", " ">>, <<"a", "b">>}
EmailValues ==
  {<<>>, <<"a", "@", "b">>, <<"a", "@", "b", ".", "c">>,
   <<" ", "a", "@", "b", ".", "c", " ">>, <<"a", " ", "@", "b", ".", "c">>}
MessageValues ==
  {<<>>, <<" ", "1", "2", "3", "4", "5", "6", "7", "8", "9", " ">>,
   <<"0", "1", "2", "3", "4", "5", "6", "7", "8", "9">>}

FieldValues(fieldName) ==
  CASE fieldName = "name" -> NameValues
    [] fieldName = "email" -> EmailValues
    [] fieldName = "message" -> MessageValues

\* String.prototype.trim
RECURSIVE trimStart(_)
trimStart(value) ==
  IF value # <<>> /\ Head(value) \in Whitespace THEN trimStart(Tail(value)) ELSE value

RECURSIVE trimEnd(_)
trimEnd(value) ==
  IF value # <<>> /\ value[Len(value)] \in Whitespace
  THEN trimEnd(SubSeq(value, 1, Len(value) - 1))
  ELSE value

trim(value) == trimEnd(trimStart(value))

\* [^\s@]+ on value[from..to]
NoSpaceNoAt(value, from, to) ==
  /\ from <= to
  /\ \A k \in from..to : value[k] \notin Whitespace \cup {"@"}

\* /^[^\s@]+@[^\s@]+\.[^\s@]+$/.test(value)
emailRegex(value) ==
  \E i \in 1..Len(value) : \E j \in 1..Len(value) :
     /\ i < j
     /\ value[i] = "@"
     /\ value[j] = "."
     /\ NoSpaceNoAt(value, 1, i - 1)
     /\ NoSpaceNoAt(value, i + 1, j - 1)
     /\ NoSpaceNoAt(value, j + 1, Len(value))

validators(fieldName) ==
  CASE fieldName = "name" -> <<"required", "minLength">>
    [] fieldName = "email" -> <<"required", "email">>
    [] fieldName = "message" -> <<"required", "minLength">>

runValidator(validator, value, fieldName) ==
  CASE validator = "required" -> Len(value) > 0
    [] validator = "email" -> emailRegex(value)
    [] validator = "minLength" -> Len(value) >= (IF fieldName = "message" THEN 10 ELSE 2)
    [] OTHER -> TRUE

FieldClean == [classes |-> {}, errorShown |-> FALSE]

showFieldError(st) ==
  [classes |-> (st.classes \cup {"error"}) \ {"success"}, errorShown |-> TRUE]

clearFieldError(st) ==
  [classes |-> st.classes \ {"error"}, errorShown |-> FALSE]

showFieldSuccess(st) ==
  [st EXCEPT !.classes = (@ \cup {"success"}) \ {"error"}]

\* validateField with the raw value taken as it is: not the program
validateField_noTrim(fieldName, raw, st) ==
  LET value == raw
      vs == validators(fieldName)
      isValid == \A k \in 1..Len(vs) : runValidator(vs[k], value, fieldName)
  IN [isValid |-> isValid,
      st |-> IF isValid THEN showFieldSuccess(clearFieldError(st))
             ELSE showFieldError(clearFieldError(st))]

\* validateField: the validators run in order on the trimmed value, the
\* first one that fails shows the error
validateField(fieldName, raw, st) ==
  LET value == trim(raw)
      vs == validators(fieldName)
      isValid == \A k \in 1..Len(vs) : runValidator(vs[k], value, fieldName)
  IN [isValid |-> isValid,
      st |-> IF isValid THEN showFieldSuccess(clearFieldError(st))
             ELSE showFieldError(clearFieldError(st))]

getFormData == [f \in Fields |-> trim(formValue[f])]

NoData == [f \in Fields |-> <<"?">>]

Hidden == [show |-> FALSE, display |-> "none"]
Shown == [show |-> TRUE, display |-> "flex"]

\* setSubmittingState
setSubmittingState(button, submitting) ==
  [button EXCEPT !.disabled = submitting, !.submitLoading = submitting]

FormEvent(kind, outcome) == [kind |-> kind, outcome |-> outcome]

\* state after DOMContentLoaded: new ContactForm(), and main.js's
\* initializeLoadingStates when main.js is on the page
FormInit ==
  /\ mainJs \in BOOLEAN
  /\ formValue = [f \in Fields |-> <<>>]
  /\ fieldState = [f \in Fields |-> FieldClean]
  /\ isSubmitting = FALSE
  /\ inFlight = 0
  /\ sentData = NoData
  /\ submitButton = [disabled |-> FALSE, loading |-> FALSE, submitLoading |-> FALSE]
  /\ successMessage = Hidden
  /\ errorMessage = Hidden
  /\ hideTimer = FALSE
  /\ lastForm = FormEvent("init", "none")

\* a page without the contact form
FormIdle ==
  /\ mainJs = FALSE
  /\ formValue = [f \in Fields |-> <<>>]
  /\ fieldState = [f \in Fields |-> FieldClean]
  /\ isSubmitting = FALSE
  /\ inFlight = 0
  /\ sentData = NoData
  /\ submitButton = [disabled |-> FALSE, loading |-> FALSE, submitLoading |-> FALSE]
  /\ successMessage = Hidden
  /\ errorMessage = Hidden
  /\ hideTimer = FALSE
  /\ lastForm = FormEvent("init", "none")

\* the submit listener of main.js: every submit event marks the form's
\* submit button as loading and disables it
mainSubmitListener(button) ==
  IF mainJs THEN [button EXCEPT !.loading = TRUE, !.disabled = TRUE] ELSE button

validateForm ==
  [f \in Fields |-> validateField(f, formValue[f], fieldState[f])]

\* handleSubmit without its test of isSubmitting: not the program
SubmitEvent_noGuard(via) ==
  /\ via = "user" => ~submitButton.disabled
  /\ IF FALSE
     THEN /\ submitButton' = mainSubmitListener(submitButton)
          /\ lastForm' = FormEvent("submit", "ignored")
          /\ UNCHANGED <<fieldState, isSubmitting, inFlight, sentData,
                         successMessage, errorMessage, hideTimer>>
     ELSE /\ fieldState' = [f \in Fields |-> validateForm[f].st]
          /\ IF \A f \in Fields : validateForm[f].isValid
             THEN /\ isSubmitting' = TRUE
                  /\ submitButton' = setSubmittingState(mainSubmitListener(submitButton), TRUE)
                  /\ successMessage' = [successMessage EXCEPT !.show = FALSE]
                  /\ errorMessage' = [errorMessage EXCEPT !.show = FALSE]
                  /\ hideTimer' = TRUE
                  /\ sentData' = getFormData
                  /\ inFlight' = inFlight + 1
                  /\ lastForm' = FormEvent("submit", "started")
             ELSE /\ submitButton' = mainSubmitListener(submitButton)
                  /\ lastForm' = FormEvent("submit", "rejected")
                  /\ UNCHANGED <<isSubmitting, inFlight, sentData,
                                 successMessage, errorMessage, hideTimer>>
  /\ UNCHANGED <<mainJs, formValue, swVars, pmVars, imgVars, hcVars, scrollVars>>

\* a submit event on the form: handleSubmit, and submitForm up to its await.
\* A user can submit only through a submit button that is not disabled; a
\* script can dispatch the event at any time.
SubmitEvent(via) ==
  /\ via = "user" => ~submitButton.disabled
  /\ IF isSubmitting
     THEN /\ submitButton' = mainSubmitListener(submitButton)
          /\ lastForm' = FormEvent("submit", "ignored")
          /\ UNCHANGED <<fieldState, isSubmitting, inFlight, sentData,
                         successMessage, errorMessage, hideTimer>>
     ELSE /\ fieldState' = [f \in Fields |-> validateForm[f].st]
          /\ IF \A f \in Fields : validateForm[f].isValid
             THEN /\ isSubmitting' = TRUE
                  /\ submitButton' = setSubmittingState(mainSubmitListener(submitButton), TRUE)
                  /\ successMessage' = [successMessage EXCEPT !.show = FALSE]
                  /\ errorMessage' = [errorMessage EXCEPT !.show = FALSE]
                  /\ hideTimer' = TRUE
                  /\ sentData' = getFormData
                  /\ inFlight' = inFlight + 1
                  /\ lastForm' = FormEvent("submit", "started")
             ELSE /\ submitButton' = mainSubmitListener(submitButton)
                  /\ lastForm' = FormEvent("submit", "rejected")
                  /\ UNCHANGED <<isSubmitting, inFlight, sentData,
                                 successMessage, errorMessage, hideTimer>>
  /\ UNCHANGED <<mainJs, formValue, swVars, pmVars, imgVars, hcVars, scrollVars>>

\* the rest of submitForm with the finally block left out: not the program
SendFormDataDone_noFinally(success) ==
  /\ inFlight > 0
  /\ inFlight' = inFlight - 1
  /\ IF success
     THEN /\ successMessage' = Shown
          /\ errorMessage' = Hidden
          /\ formValue' = [f \in Fields |-> <<>>]
          /\ fieldState' = [f \in Fields |-> FieldClean]
     ELSE /\ errorMessage' = Shown
          /\ successMessage' = Hidden
          /\ UNCHANGED <<formValue, fieldState>>
  /\ lastForm' = FormEvent("done", IF success THEN "success" ELSE "failure")
  /\ UNCHANGED <<mainJs, isSubmitting, submitButton, sentData, hideTimer, swVars, pmVars, imgVars, hcVars, scrollVars>>

\* sendFormData resolves after its 2000 ms timer, with success or not, and
\* submitForm runs to its end: the message, resetForm, the finally block
SendFormDataDone(success) ==
  /\ inFlight > 0
  /\ inFlight' = inFlight - 1
  /\ IF success
     THEN /\ successMessage' = Shown
          /\ errorMessage' = Hidden
          /\ formValue' = [f \in Fields |-> <<>>]
          /\ fieldState' = [f \in Fields |-> FieldClean]
     ELSE /\ errorMessage' = Shown
          /\ successMessage' = Hidden
          /\ UNCHANGED <<formValue, fieldState>>
  /\ isSubmitting' = FALSE
  /\ submitButton' = setSubmittingState(submitButton, FALSE)
  /\ lastForm' = FormEvent("done", IF success THEN "success" ELSE "failure")
  /\ UNCHANGED <<mainJs, sentData, hideTimer, swVars, pmVars, imgVars, hcVars, scrollVars>>

\* the 300 ms timer of hideMessages
HideMessagesTimer ==
  /\ hideTimer
  /\ hideTimer' = FALSE
  /\ successMessage' = IF ~successMessage.show THEN [successMessage EXCEPT !.display = "none"]
                       ELSE successMessage
  /\ errorMessage' = IF ~errorMessage.show THEN [errorMessage EXCEPT !.display = "none"]
                     ELSE errorMessage
  /\ lastForm' = FormEvent("timer", "none")
  /\ UNCHANGED <<mainJs, formValue, fieldState, isSubmitting, inFlight, sentData,
                 submitButton, swVars, pmVars, imgVars, hcVars, scrollVars>>

\* the user types in a field: the input listener clears its error
InputEvent(f, v) ==
  /\ formValue[f] # v
  /\ formValue' = [formValue EXCEPT ![f] = v]
  /\ fieldState' = [fieldState EXCEPT ![f] = clearFieldError(@)]
  /\ lastForm' = FormEvent("input", "none")
  /\ UNCHANGED <<mainJs, isSubmitting, inFlight, sentData, submitButton,
                 successMessage, errorMessage, hideTimer, swVars, pmVars, imgVars, hcVars, scrollVars>>

\* a field loses focus: the blur listener validates it
BlurEvent(f) ==
  /\ fieldState' = [fieldState EXCEPT ![f] = validateField(f, formValue[f], @).st]
  /\ lastForm' = FormEvent("blur", "none")
  /\ UNCHANGED <<mainJs, formValue, isSubmitting, inFlight, sentData, submitButton,
                 successMessage, errorMessage, hideTimer, swVars, pmVars, imgVars, hcVars, scrollVars>>

FormNext ==
  \/ \E via \in {"user", "script"} : SubmitEvent(via)
  \/ \E success \in BOOLEAN : SendFormDataDone(success)
  \/ HideMessagesTimer
  \/ \E f \in Fields : \E v \in FieldValues(f) : InputEvent(f, v)
  \/ \E f \in Fields : BlurEvent(f)

(***************************************************************************)
(* High contrast mode of AccessibilityManager (assets/js/accessibility.js). *)
(***************************************************************************)
\* number of style elements the document is let to hold
MaxStyles == 8

Enabled == "High contrast mode enabled"
Disabled == "High contrast mode disabled"

HCState(cls, styles) == [highContrast |-> cls, styles |-> styles]

\* enableHighContrast: adds the class and appends a new style element
enableHighContrast(st) == HCState(TRUE, st.styles + 1)

\* disableHighContrast: removes the class and the element that
\* getElementById finds, when there is one
disableHighContrast(st) ==
  HCState(FALSE, IF st.styles > 0 THEN st.styles - 1 ELSE 0)

\* state after init: setupScreenReaderSupport has made the live region,
\* setupHighContrastMode has enabled the mode when the system asks for it
HCInit ==
  /\ prefersHighContrast \in BOOLEAN
  /\ highContrast = prefersHighContrast
  /\ highContrastStyles = IF prefersHighContrast THEN 1 ELSE 0
  /\ liveRegion = IF prefersHighContrast THEN Enabled ELSE ""
  /\ announceTimer = prefersHighContrast
  /\ hcBefore = <<>>

\* a page without accessibility.js
HCIdle ==
  /\ prefersHighContrast = FALSE
  /\ highContrast = FALSE
  /\ highContrastStyles = 0
  /\ liveRegion = ""
  /\ announceTimer = FALSE
  /\ hcBefore = <<>>

\* Alt+H: toggleHighContrast
ToggleHighContrast ==
  LET st == HCState(highContrast, highContrastStyles)
      next == IF highContrast THEN disableHighContrast(st) ELSE enableHighContrast(st)
  IN /\ next.styles <= MaxStyles
     /\ highContrast' = next.highContrast
     /\ highContrastStyles' = next.styles
     /\ liveRegion' = IF highContrast THEN Disabled ELSE Enabled
     /\ announceTimer' = TRUE
     /\ hcBefore' = IF Len(hcBefore) < 2 THEN Append(hcBefore, st)
                    ELSE <<hcBefore[2], st>>
     /\ UNCHANGED <<prefersHighContrast, swVars, pmVars, imgVars, formVars, scrollVars>>

\* the change listener of the media query: the system preference flips
PrefersContrastChange ==
  LET st == HCState(highContrast, highContrastStyles)
      next == IF ~prefersHighContrast THEN enableHighContrast(st) ELSE disableHighContrast(st)
  IN /\ next.styles <= MaxStyles
     /\ prefersHighContrast' = ~prefersHighContrast
     /\ highContrast' = next.highContrast
     /\ highContrastStyles' = next.styles
     /\ liveRegion' = IF ~prefersHighContrast THEN Enabled ELSE Disabled
     /\ announceTimer' = TRUE
     /\ hcBefore' = <<>>
     /\ UNCHANGED <<swVars, pmVars, imgVars, formVars, scrollVars>>

\* the 1000 ms timer of announce clears the live region
AnnounceTimer ==
  /\ announceTimer
  /\ announceTimer' = FALSE
  /\ liveRegion' = ""
  /\ UNCHANGED <<prefersHighContrast, highContrast, highContrastStyles, hcBefore,
                 swVars, pmVars, imgVars, formVars, scrollVars>>

HCNext ==
  \/ ToggleHighContrast
  \/ PrefersContrastChange
  \/ AnnounceTimer

(***************************************************************************)
(* Scroll throttles: the scroll spy of main.js and optimizeScrolling of    *)
(* PerformanceOptimizer.  Each has its own ticking flag.                   *)
(***************************************************************************)
\* scroll positions are 0..MaxScroll
MaxScroll == 3

Positions == 0..MaxScroll

NoPosition == -1

Throttles == {"scrollSpy", "performance"}

\* the throttles that listen to each event of window
Listeners(event) ==
  IF event = "scroll" THEN {"scrollSpy", "performance"} ELSE {"performance"}

ScrollEventRecord(kind, skipped) == [kind |-> kind, skipped |-> skipped]

\* state after DOMContentLoaded: initializeScrollSpy has called
\* updateActiveSection once, optimizeScrolling has only added its listeners
ScrollInit ==
  /\ scrollPosition \in Positions
  /\ ticking = [t \in Throttles |-> FALSE]
  /\ rafPending = [t \in Throttles |-> 0]
  /\ handled = [t \in Throttles |-> IF t = "scrollSpy" THEN scrollPosition ELSE NoPosition]
  /\ lastScroll = ScrollEventRecord("init", {})

\* a page without these scripts
ScrollIdle ==
  /\ scrollPosition = 0
  /\ ticking = [t \in Throttles |-> FALSE]
  /\ rafPending = [t \in Throttles |-> 0]
  /\ handled = [t \in Throttles |-> NoPosition]
  /\ lastScroll = ScrollEventRecord("init", {})

\* requestTick / optimizedScrollHandler of the throttles that listen
requestTick(event) ==
  /\ ticking' = [t \in Throttles |-> ticking[t] \/ t \in Listeners(event)]
  /\ rafPending' = [t \in Throttles |->
                      IF t \in Listeners(event) /\ ~ticking[t]
                      THEN rafPending[t] + 1 ELSE rafPending[t]]
  /\ lastScroll' = ScrollEventRecord(event, {t \in Listeners(event) : ticking[t]})

\* a scroll event: the page is now at position y
ScrollEvent(y) ==
  /\ y # scrollPosition
  /\ scrollPosition' = y
  /\ requestTick("scroll")
  /\ UNCHANGED <<handled, swVars, pmVars, imgVars, formVars, hcVars>>

\* a resize event
ResizeEvent ==
  /\ requestTick("resize")
  /\ UNCHANGED <<scrollPosition, handled, swVars, pmVars, imgVars, formVars, hcVars>>

\* the callback of a throttle that never resets its flag: not the program
AnimationFrame_noReset(t) ==
  /\ rafPending[t] > 0
  /\ rafPending' = [rafPending EXCEPT ![t] = @ - 1]
  /\ handled' = [handled EXCEPT ![t] = scrollPosition]
  /\ lastScroll' = ScrollEventRecord("frame", {})
  /\ UNCHANGED <<scrollPosition, ticking, swVars, pmVars, imgVars, formVars, hcVars>>

\* the browser runs the requestAnimationFrame callback of a throttle:
\* updateActiveSection, or handleScroll, reads the position of that moment
\* and the flag is reset (on this page updateObserver has nothing to observe)
AnimationFrame(t) ==
  /\ rafPending[t] > 0
  /\ rafPending' = [rafPending EXCEPT ![t] = @ - 1]
  /\ handled' = [handled EXCEPT ![t] = scrollPosition]
  /\ ticking' = [ticking EXCEPT ![t] = FALSE]
  /\ lastScroll' = ScrollEventRecord("frame", {})
  /\ UNCHANGED <<scrollPosition, swVars, pmVars, imgVars, formVars, hcVars>>

ScrollNext ==
  \/ \E y \in Positions : ScrollEvent(y)
  \/ ResizeEvent
  \/ \E t \in Throttles : AnimationFrame(t)

Init == SWInit /\ PMIdle /\ ImgIdle /\ FormIdle /\ HCIdle /\ ScrollIdle

Spec == Init /\ [][SWNext]_vars

PMSpecInit == SWIdle /\ PMInit /\ ImgIdle /\ FormIdle /\ HCIdle /\ ScrollIdle

SpecPM == PMSpecInit /\ [][PMNext]_vars

ImgSpecInit == SWIdle /\ PMIdle /\ ImgInit /\ FormIdle /\ HCIdle /\ ScrollIdle

SpecImg == ImgSpecInit /\ [][ImgNext]_vars

FormSpecInit == SWIdle /\ PMIdle /\ ImgIdle /\ FormInit /\ HCIdle /\ ScrollIdle

SpecForm == FormSpecInit /\ [][FormNext]_vars

HCSpecInit == SWIdle /\ PMIdle /\ ImgIdle /\ FormIdle /\ HCInit /\ ScrollIdle

SpecHC == HCSpecInit /\ [][HCNext]_vars

ScrollSpecInit == SWIdle /\ PMIdle /\ ImgIdle /\ FormIdle /\ HCIdle /\ ScrollInit

SpecScroll == ScrollSpecInit /\ [][ScrollNext]_vars

\* the browser runs every requestAnimationFrame callback at its next frame
SpecScrollLive ==
  /\ SpecScroll
  /\ WF_vars(AnimationFrame("scrollSpy"))
  /\ WF_vars(AnimationFrame("performance"))

\* the timer of sendFormData always fires, and so does the one of hideMessages
SpecFormLive ==
  /\ SpecForm
  /\ WF_vars(\E success \in BOOLEAN : SendFormDataDone(success))
  /\ WF_vars(HideMessagesTimer)

TypeOK ==
  /\ swState \in {"parsed", "installed", "activated"}
  /\ pc \in {"idle", "cacheFirst_fetch", "networkFirst_fetch", "swr_await", "handleOffline"}
  /\ Cardinality(bg) <= MaxBg

(***************************************************************************)
(* Properties of the service worker.                                       *)
(***************************************************************************)
Strategies == {"cacheFirst", "staleWhileRevalidate", "networkFirst"}

Answered == pc = "idle" /\ cur.strategy \in Strategies

CurPath == cur.req.url.path

\* C1: when the network fetch of a handled request fails, handleRequest
\* answers with a cached response or a 503 Response, never with null.
C1_NetworkFailureAnswered ==
  (Answered /\ cur.net = "fail") =>
     /\ result.kind = "response"
     /\ result.from = "cache" \/ result.status = 503

\* C2: the policy of a handled request is a function of its pathname alone:
\* cache-first for a static asset, else stale-while-revalidate for a dynamic
\* asset, else network-first.
C2_PolicyFromPathname ==
  cur.strategy # "none" =>
     cur.strategy =
       CASE isStaticAsset(CurPath) -> "cacheFirst"
         [] ~isStaticAsset(CurPath) /\ isDynamicAsset(CurPath) -> "staleWhileRevalidate"
         [] ~isStaticAsset(CurPath) /\ ~isDynamicAsset(CurPath) -> "networkFirst"

\* the stylesheet asked for with a query string, after other requests and
\* with the precache in place, went to cache-first like the bare pathname
C2_Witness ==
  /\ Answered
  /\ precached
  /\ nFetch >= 2
  /\ cur.req.url = Url(P_css, "?v=2")
  /\ cur.strategy = "cacheFirst"
  /\ result.kind = "response"

\* C3: staleWhileRevalidate answers a hit with the cached response without
\* waiting for the network, and the write of every ok revalidation response
\* to the dynamic cache is pending or done, never dropped.
C3_RevalidationWritten ==
  /\ (Answered /\ cur.strategy = "staleWhileRevalidate" /\ cur.hit # NoEntry) =>
        (result = CachedResponse(cur.hit) /\ cur.net = "none" /\ cur.fetched)
  /\ \A t \in bg : t.kind # "cloneThrew"

\* a CSS file, a JS file or an image, by extension
IsCssJsOrImage(pathname) ==
  \E ext \in {".css", ".js", ".png", ".jpg", ".jpeg", ".svg", ".webp"} : endsWith(pathname, <<ext>>)

\* C4: a request for a CSS file, a JS file or an image is served cache-first,
\* and once cached it is answered from the cache without a network fetch.
C4_StaticAssetsCacheFirst ==
  (cur.strategy # "none" /\ IsCssJsOrImage(CurPath)) =>
     /\ cur.strategy = "cacheFirst"
     /\ cur.hit # NoEntry => (result = CachedResponse(cur.hit) /\ ~cur.fetched)

\* what network-first means for the request being handled
ServedNetworkFirst ==
  /\ cur.strategy = "networkFirst"
  /\ cur.fetched
  /\ pc = "networkFirst_fetch" => result = NoResult
  /\ (pc = "idle" /\ cur.net \in {"ok", "notok"}) => result.from = "network"
  /\ (pc = "idle" /\ result.from = "cache") => cur.net = "fail"

C6_PrecachedServedOffline ==
  precached =>
     /\ \A u \in STATIC_ASSETS : CachesMatch(u) # NoEntry
     /\ (Answered /\ cur.req.url \in STATIC_ASSETS /\ cur.net \in {"none", "fail"}) =>
           (result.kind = "response" /\ result.from = "cache" /\ result.ver # NoEntry)

C6_Witness ==
  /\ precached
  /\ Answered
  /\ nFetch >= 2
  /\ cur.req.url = Url(P_index, "")
  /\ cur.net = "fail"
  /\ result.from = "cache"

InOrder(order, c) == \E i \in 1..Len(order) : order[i] = c

\* C7: the activate step deletes every cache other than STATIC_CACHE and
\* DYNAMIC_CACHE and leaves those two and their contents as they were.
C7_ActivateDeletesOnlyOtherCaches ==
  [][(swState = "installed" /\ swState' = "activated") =>
       /\ \A i \in 1..Len(cacheOrder') : cacheOrder'[i] \in {STATIC_CACHE, DYNAMIC_CACHE}
       /\ \A c \in CacheNames \ {STATIC_CACHE, DYNAMIC_CACHE} : cacheData'[c] = EmptyCache
       /\ \A c \in {STATIC_CACHE, DYNAMIC_CACHE} :
            /\ InOrder(cacheOrder', c) <=> InOrder(cacheOrder, c)
            /\ cacheData'[c] = cacheData[c]]_vars

\* an activation has deleted the old cache and kept the precache
C7_Witness ==
  /\ swState = "activated"
  /\ deletedCaches = {CACHE_NAME}
  /\ ~InOrder(cacheOrder, CACHE_NAME)
  /\ precached
  /\ \A u \in STATIC_ASSETS : cacheData[STATIC_CACHE][u] # NoEntry

(***************************************************************************)
(* Properties of ProjectsManager.init.                                     *)
(***************************************************************************)
LoadedFromFiles ==
  FileProjects("ai", files["ai"].n) \o FileProjects("ml", files["ml"].n)
    \o FileProjects("research", files["research"].n)

\* C8: given valid JSON with at least one project, init ends with one card
\* per loaded entry, with or without window.imageOptimizer.
C8_ValidJsonRendersLoaded ==
  (pmPc = "done" /\ (\A f \in DataFiles : files[f].status = "ok") /\ Len(LoadedFromFiles) > 0) =>
     grid = CardsGrid(LoadedFromFiles)

\* C9: init never ends in the loading state; with no project loaded the
\* grid shows the fallback projects or the error message; when only some
\* files fail the grid shows the projects of the files that loaded.
C9_FailedFetchesFallBack ==
  pmPc = "done" =>
     /\ grid.kind # "loading"
     /\ Len(Combine(projectData)) = 0 => grid \in {CardsGrid(FallbackProjects), ErrorGrid}
     /\ ((\E f \in DataFiles : files[f].status # "ok") /\ Len(Combine(projectData)) > 0) =>
           grid = CardsGrid(Combine(projectData))

(***************************************************************************)
(* Properties of ImageOptimizer.                                           *)
(***************************************************************************)
\* C10: after a failed load (onerror of the preload, or an error event on
\* the element) the element shows a fallback SVG, has the class 'fallback'
\* and not the class 'loading'; an element with no preload in flight never
\* has the class 'loading'.
C10_FailedImageShowsFallback ==
  /\ lastEvent.kind \in {"onerror", "error"} =>
        /\ imgs[lastEvent.img].src \in FallbackSVGs
        /\ "fallback" \in imgs[lastEvent.img].classes
        /\ "loading" \notin imgs[lastEvent.img].classes
  /\ \A i \in Images : imgs[i].loads = 0 => "loading" \notin imgs[i].classes

C10_Witness ==
  /\ lastEvent = [kind |-> "onerror", img |-> "lazy"]
  /\ imgs["lazy"].loads = 0
  /\ imgs["lazy"].src \in FallbackSVGs
  /\ imgs["lazy"].classes = {"fallback"}

\* C11: there is no retry: once a lazy image carries the fallback of a
\* failed load, no step starts another preload of its original source.
C11_NoRetryAfterFallback ==
  [][\A i \in Images :
       ("fallback" \in imgs[i].classes /\ imgs[i].dataSrc) =>
          imgs'[i].loads <= imgs[i].loads]_vars

(***************************************************************************)
(* Properties of the contact form.                                         *)
(***************************************************************************)
\* the three conditions on the trimmed values of a form
NameOk(values) == Len(trim(values["name"])) >= 2
EmailOk(values) == emailRegex(trim(values["email"]))
MessageOk(values) == Len(trim(values["message"])) >= 10

FieldOk(f, values) ==
  CASE f = "name" -> NameOk(values)
    [] f = "email" -> EmailOk(values)
    [] f = "message" -> MessageOk(values)

ShowsError(f) == fieldState[f].errorShown /\ "error" \in fieldState[f].classes

\* C12: a submit event starts submitForm only when the trimmed name has at
\* least 2 characters, the trimmed email matches the pattern and the trimmed
\* message has at least 10 characters, and what is sent are those trimmed
\* values; otherwise nothing is sent and every invalid field shows an error.
C12_ValidatedBeforeSend ==
  /\ lastForm = FormEvent("submit", "started") =>
        /\ \A f \in Fields : FieldOk(f, formValue)
        /\ sentData = [f \in Fields |-> trim(formValue[f])]
  /\ inFlight > 0 => \A f \in Fields : FieldOk(f, sentData)
  /\ (lastForm.kind = "submit" /\ lastForm.outcome # "ignored"
        /\ \E f \in Fields : ~FieldOk(f, formValue)) =>
        /\ lastForm.outcome = "rejected"
        /\ inFlight = 0
        /\ \A f \in Fields : ~FieldOk(f, formValue) => ShowsError(f)

\* a submit with a name that is too short only once trimmed, an empty message
\* and a valid email was rejected, and both invalid fields show their error
C12_Witness ==
  /\ lastForm = FormEvent("submit", "rejected")
  /\ formValue["name"] = <<" ", "a", " ">>
  /\ formValue["message"] = <<>>
  /\ EmailOk(formValue)
  /\ ShowsError("name") /\ ShowsError("message")
  /\ ~ShowsError("email")
  /\ inFlight = 0

IsShown(message) == message.show /\ message.display = "flex"

\* C13: every submission that is started finishes, and it finishes with
\* exactly one of the success message and the error message shown and with
\* isSubmitting false; a successful one shows the success message.
C13_SubmissionFinishes ==
  /\ [](lastForm.kind = "done" =>
          /\ ~isSubmitting
          /\ IsShown(successMessage) # IsShown(errorMessage)
          /\ lastForm.outcome = "success" => IsShown(successMessage))
  /\ (isSubmitting ~> (lastForm.kind = "done" /\ ~isSubmitting))

\* a submission has just succeeded: the success message alone is shown and
\* the form was reset
C13_Witness ==
  /\ lastForm = FormEvent("done", "success")
  /\ IsShown(successMessage) /\ ~IsShown(errorMessage)
  /\ ~isSubmitting /\ inFlight = 0
  /\ sentData["name"] = <<"a", "b">>
  /\ formValue = [f \in Fields |-> <<>>]

(***************************************************************************)
(* Properties of the project filters, the modal and the data fetches.      *)
(***************************************************************************)
\* the indices of the entries of projects that belong to category c
Matching(projects, c) ==
  {i \in 1..Len(projects) : c = "all" \/ projects[i].category = c}

\* filtered holds exactly the entries of projects of category c, in order
IsFilterOf(filtered, projects, c) ==
  /\ Len(filtered) = Cardinality(Matching(projects, c))
  /\ \A j \in 1..Len(filtered) :
       \E i \in Matching(projects, c) :
          /\ Cardinality({m \in Matching(projects, c) : m <= i}) = j
          /\ filtered[j] = projects[i]

\* g shows one card per entry of filtered, or the empty message
ShowsCardsOf(g, filtered) ==
  IF Len(filtered) = 0
  THEN g.kind = "empty-message"
  ELSE /\ g.kind = "cards"
       /\ Len(g.cards) = Len(filtered)
       /\ \A j \in 1..Len(filtered) : g.cards[j] = filtered[j].id

\* a step that runs filterProjects(c): a call, or a click on a bound button
RunsFilterProjects(c) ==
  \/ FilterProjectsCall(c)
  \/ FilterButtonClick(c)

\* C14: filterProjects(c) leaves in filteredProjects exactly the entries of
\* allProjects of category c in their order (all of them for 'all'), leaves
\* allProjects unchanged, and the grid shows one card per filtered entry or
\* the empty message.
C14_FilterProjectsFilters ==
  [][\A c \in Categories :
       (currentCategory' = c /\ RunsFilterProjects(c)) =>
          /\ IsFilterOf(filteredProjects', allProjects, c)
          /\ allProjects' = allProjects
          /\ ShowsCardsOf(grid', filteredProjects')]_vars

\* the research filter on loaded projects of several categories: fewer cards
\* than projects, and three of the categories checked in sequence
C14_Witness ==
  /\ pmPc = "done"
  /\ initEnd = "rendered"
  /\ currentCategory = "research"
  /\ Len(filteredProjects) = 2
  /\ Len(allProjects) = 4
  /\ IsFilterOf(filteredProjects, allProjects, "research")
  /\ ShowsCardsOf(grid, filteredProjects)

\* the project filter buttons that have both 'active' and aria-pressed='true'
ActiveButtons ==
  {b \in (1..Len(filterBtns)) \X Categories :
     filterBtns[b[1]][b[2]].active /\ filterBtns[b[1]][b[2]].pressed}

\* C15: after init and after any filter clicks, project or technical
\* artifact, exactly one project filter button is active with
\* aria-pressed='true', and it is the button of currentCategory.
C15_OneActiveFilterButton ==
  pmPc = "done" =>
     /\ Cardinality(ActiveButtons) = 1
     /\ \A b \in ActiveButtons : b[2] = currentCategory
     /\ \A k \in 1..Len(filterBtns) : \A c \in Categories :
          (filterBtns[k][c].active \/ filterBtns[k][c].pressed) => <<k, c>> \in ActiveButtons

\* C16: after any sequence of openModal and closeModal calls the modal is
\* shown exactly when currentProject is non-null, and a closed modal leaves
\* currentImageIndex at 0.
C16_ModalShownIffCurrentProject ==
  /\ modalShown <=> currentProject # NoProject
  /\ ~modalShown => currentImageIndex = 0

\* C17: each JSON data file is requested at most once per page load: once
\* by loadProjects, and never again by a filter, the modal, the gallery or
\* the fallback path.
C17_DataFetchedOnce ==
  /\ \A f \in DataFiles : fetchCount[f] <= 1
  /\ pmPc = "done" => \A f \in DataFiles : fetchCount[f] = 1

\* after a filter, an opened modal and a gallery step on loaded projects
C17_Witness ==
  /\ pmPc = "done"
  /\ initEnd = "rendered"
  /\ currentCategory = "ml-engineering"
  /\ modalShown
  /\ currentImageIndex = 1
  /\ \A f \in DataFiles : fetchCount[f] = 1

(***************************************************************************)
(* Further properties of the service worker.                               *)
(***************************************************************************)
\* what the caches hold for a pathname without query string
Cached(p) == CachesMatch(Url(p, ""))

C19_InstalledHasPrecache ==
  swState \in {"installed", "activated"} =>
     \A u \in STATIC_ASSETS : cacheData[STATIC_CACHE][u] # NoEntry

\* C20: once staleWhileRevalidate or networkFirst has written an ok network
\* response for a url (they write to the dynamic cache), a cache lookup for
\* that url returns that response and not an older copy, also for the urls
\* precached at install.
C20_LookupReturnsNewest ==
  \A u \in Urls :
     cacheData[DYNAMIC_CACHE][u] # NoEntry =>
        CachesMatch(u) = cacheData[DYNAMIC_CACHE][u]

\* C21: a request whose method is not GET, or that goes to another origin,
\* is not answered by the worker: respondWith is not called, no strategy
\* runs, and no cache is read or written for it.
C21_OnlySameOriginGetHandled ==
  [][(nFetch' = nFetch + 1 /\ (cur'.req.method # "GET" \/ ~cur'.req.sameOrigin)) =>
       /\ result' = NotIntercepted
       /\ cur'.strategy = "none"
       /\ cur'.hit = NoEntry /\ ~cur'.fetched
       /\ pc' = "idle"
       /\ UNCHANGED <<cacheOrder, cacheData, bg>>]_vars

\* a POST of a precached data url, sent after other requests to a worker
\* with the precache in place, was left to the browser
C21_Witness ==
  /\ precached
  /\ nFetch >= 2
  /\ cur.req.method = "POST"
  /\ cur.req.url = Url(P_projects, "")
  /\ cur.strategy = "none"
  /\ result = NotIntercepted
  /\ pc = "idle"

(***************************************************************************)
(* Further properties of the contact form.                                 *)
(***************************************************************************)
\* C22: at most one submission is in flight; isSubmitting is true exactly
\* while a sendFormData call is pending (from the start of submitForm to
\* its finally block); a submit event that arrives meanwhile validates
\* nothing and sends nothing.
C22_OneSubmissionInFlight ==
  /\ [](/\ inFlight <= 1
        /\ isSubmitting <=> inFlight = 1
        /\ lastForm = FormEvent("submit", "ignored") => isSubmitting)
  /\ [][(isSubmitting /\ lastForm'.kind = "submit") =>
          /\ lastForm'.outcome = "ignored"
          /\ UNCHANGED <<fieldState, inFlight, sentData, isSubmitting,
                         successMessage, errorMessage, formValue>>]_vars

\* a submit event arrived during a submission, after the user had emptied
\* the name field: the field was not validated, the one call is still pending
C22_Witness ==
  /\ lastForm = FormEvent("submit", "ignored")
  /\ isSubmitting
  /\ inFlight = 1
  /\ formValue["name"] = <<>>
  /\ ~ShowsError("name")
  /\ NameOk(sentData)

\* C23: once a submit attempt has finished, rejected by validation or
\* completed with success or failure, the submit button is enabled and not
\* marked 'loading', also when main.js's listener had disabled it.
C23_SubmitButtonReenabled ==
  (lastForm = FormEvent("submit", "rejected") \/ lastForm.kind = "done") =>
     /\ ~submitButton.disabled
     /\ ~submitButton.loading
     /\ ~submitButton.submitLoading

(***************************************************************************)
(* Properties of the high contrast mode.                                   *)
(***************************************************************************)
\* C24: a style element with id 'high-contrast-styles' is present exactly
\* when body has the class 'high-contrast', there is never more than one,
\* and two toggles in a row restore the state before the first of them.
C24_HighContrastConsistent ==
  /\ (highContrastStyles > 0) <=> highContrast
  /\ highContrastStyles <= 1
  /\ Len(hcBefore) = 2 => HCState(highContrast, highContrastStyles) = hcBefore[1]


(***************************************************************************)
(* C25: scroll handling is throttled to one pending animation frame.       *)
(***************************************************************************)
\* at most one callback of a throttle is outstanding, its flag is set exactly
\* while that callback is outstanding, and a position the handler has not
\* seen always has a callback coming
ScrollThrottled(t) ==
  /\ rafPending[t] <= 1
  /\ ticking[t] <=> rafPending[t] = 1
  /\ handled[t] \notin {scrollPosition, NoPosition} => ticking[t]

\* C25: however many scroll events fire, each throttle has at most one
\* requestAnimationFrame callback outstanding, the ticking flag is reset once
\* that callback has run, and every scroll event is followed by a later run
\* of the handler, which sees the position the page then has.
C25_ScrollThrottledToOneFrame ==
  /\ [](ScrollThrottled("scrollSpy") /\ ScrollThrottled("performance"))
  /\ [][\A t \in Throttles :
          (rafPending'[t] < rafPending[t]) =>
             ~ticking'[t] /\ handled'[t] = scrollPosition]_vars
  /\ (ticking["scrollSpy"] ~> (~ticking["scrollSpy"] /\ handled["scrollSpy"] = scrollPosition))
  /\ (ticking["performance"] ~> (~ticking["performance"] /\ handled["performance"] = scrollPosition))

\* a scroll event arrived while both throttles were already ticking: still
\* one callback each, and the position of the event is not handled yet
C25_Witness ==
  /\ lastScroll = ScrollEventRecord("scroll", {"scrollSpy", "performance"})
  /\ rafPending = [t \in Throttles |-> 1]
  /\ scrollPosition = MaxScroll
  /\ handled["scrollSpy"] = 0
  /\ handled["performance"] = NoPosition

====
